---- MODULE Spec2Model ----
(***************************************************************************)
(* Carbon Footprint Calculator (ETE-2.py).                                 *)
(*                                                                         *)
(* The program is a Streamlit script: every user interaction re-executes   *)
(* the whole file top to bottom against the persistent st.session_state.   *)
(* One action of this model is one such script run.                        *)
(*                                                                         *)
(* Numbers.  The script computes with Python floats.  The model computes   *)
(* the same expressions, in the same order, over exact rationals           *)
(* [n |-> numerator, d |-> denominator] in lowest terms with d > 0.        *)
(***************************************************************************)
EXTENDS Integers, Sequences, FiniteSets, TLC

VARIABLES
    total_emissions,  \* st.session_state.total_emissions
    emissions_data,   \* st.session_state.emissions_data: seven parallel lists
    inputs,           \* the widget values of each completed calculation, in order
    today,            \* the day datetime.now() falls on
    csv_file,         \* the reference dataset file on disk
    cache,            \* st.cache_data entry of load_emissions_data
    view              \* what the last script run put on the page

vars == <<total_emissions, emissions_data, inputs, today, csv_file, cache, view>>

(***************************************************************************)
(* Exact rational arithmetic                                               *)
(***************************************************************************)
Abs(x) == IF x < 0 THEN -x ELSE x

RECURSIVE GCD(_, _)
GCD(a, b) == IF b = 0 THEN a ELSE GCD(b, a % b)

\* The rational n/d in lowest terms (d # 0).
Q(n, d) ==
    LET g == GCD(Abs(n), Abs(d))
        s == IF d < 0 THEN -1 ELSE 1
    IN  [n |-> s * (n \div g), d |-> s * (d \div g)]

\* An integer as a rational.
Z(i) == [n |-> i, d |-> 1]

\* Product; the factors are cross-reduced before multiplying.
QMul(a, b) ==
    LET g1 == GCD(Abs(a.n), b.d)
        g2 == GCD(Abs(b.n), a.d)
    IN  Q((a.n \div g1) * (b.n \div g2), (a.d \div g2) * (b.d \div g1))

\* Sum, over the least common denominator.
QAdd(a, b) ==
    LET g == GCD(a.d, b.d)
    IN  Q(a.n * (b.d \div g) + b.n * (a.d \div g), (a.d \div g) * b.d)

QNeg(a) == [n |-> -a.n, d |-> a.d]

QSub(a, b) == QAdd(a, QNeg(b))

\* Quotient by a nonzero rational.
QDiv(a, b) == QMul(a, IF b.n < 0 THEN [n |-> -b.d, d |-> -b.n] ELSE [n |-> b.d, d |-> b.n])

QSign(a) == IF a.n > 0 THEN 1 ELSE IF a.n < 0 THEN -1 ELSE 0

QLt(a, b) == QSign(QSub(a, b)) < 0

QLe(a, b) == QSign(QSub(a, b)) <= 0

(***************************************************************************)
(* The widgets: option lists of the select boxes and sliders               *)
(***************************************************************************)
TransportModes ==
    {"Car (Gasoline)", "Car (Diesel)", "Car (Electric)", "Car (Hybrid)",
     "Public Bus", "Train/Subway", "Bicycle", "Walking", "Motorcycle"}

HeatingTypes == {"Natural Gas", "Oil", "Electric", "Heat Pump", "Wood", "Coal"}

DietTypes ==
    {"Heavy Meat Eater", "Regular Meat Eater", "Low Meat Eater", "Pescatarian",
     "Vegetarian", "Vegan"}

ClothingTiers == {"Very Low", "Low", "Average", "High", "Very High"}

RecyclableItems == {"Paper", "Plastic", "Glass", "Metal", "Electronics"}

ZeroWasteTiers == {"None", "Minimal", "Moderate", "Significant", "Zero-waste lifestyle"}

\* transport_mode.startswith("Car"), over the mode strings the model uses
\* ("Car (Hydrogen)" is a string with that prefix that is no option of the box).
StartsWithCar(mode) ==
    mode \in {"Car (Gasoline)", "Car (Diesel)", "Car (Electric)", "Car (Hybrid)",
              "Car (Hydrogen)"}

\* Placeholder for a name the script run never binds (fuel_efficiency when the
\* mode is no car, ac_hours when has_ac is off); the calculation never reads it.
Unbound == Z(0)

(***************************************************************************)
(* emission_factors: one flat dictionary for every category, with two      *)
(* nested dictionaries among its values                                    *)
(***************************************************************************)
\* The keys of the dictionary.
FactorKeys ==
    {"Car (Gasoline)", "Car (Diesel)", "Car (Electric)", "Car (Hybrid)", "Public Bus",
     "Train/Subway", "Bicycle", "Walking", "Motorcycle",
     "Short Flight", "Medium Flight", "Long Flight",
     "Electricity", "Natural Gas", "Oil", "Electric Heating", "Heat Pump", "Wood", "Coal",
     "Heavy Meat Eater", "Regular Meat Eater", "Low Meat Eater", "Pescatarian",
     "Vegetarian", "Vegan",
     "Clothing Spending", "Electronics", "Waste", "Zero Waste Efforts"}

\* "Clothing Spending": multipliers.
ClothingSpending ==
    [tier \in ClothingTiers |->
        CASE tier = "Very Low" -> Q(5, 10)
          [] tier = "Low" -> Q(75, 100)
          [] tier = "Average" -> Z(1)
          [] tier = "High" -> Q(15, 10)
          [] tier = "Very High" -> Z(2)]

\* "Zero Waste Efforts": multipliers.
ZeroWasteEfforts ==
    [tier \in ZeroWasteTiers |->
        CASE tier = "None" -> Z(1)
          [] tier = "Minimal" -> Q(9, 10)
          [] tier = "Moderate" -> Q(7, 10)
          [] tier = "Significant" -> Q(5, 10)
          [] tier = "Zero-waste lifestyle" -> Q(2, 10)]

emission_factors ==
    [key \in FactorKeys |->
        CASE key = "Car (Gasoline)" -> Q(192, 1000)      \* kg CO2 per km
          [] key = "Car (Diesel)" -> Q(171, 1000)
          [] key = "Car (Electric)" -> Q(53, 1000)
          [] key = "Car (Hybrid)" -> Q(106, 1000)
          [] key = "Public Bus" -> Q(105, 1000)
          [] key = "Train/Subway" -> Q(41, 1000)
          [] key = "Bicycle" -> Z(0)
          [] key = "Walking" -> Z(0)
          [] key = "Motorcycle" -> Q(103, 1000)
          [] key = "Short Flight" -> Z(500)              \* kg CO2 per flight
          [] key = "Medium Flight" -> Z(1500)
          [] key = "Long Flight" -> Z(3000)
          [] key = "Electricity" -> Q(5, 10)             \* kg CO2 per kWh
          [] key = "Natural Gas" -> Z(2)                 \* kg CO2 per unit
          [] key = "Oil" -> Q(27, 10)
          [] key = "Electric Heating" -> Q(5, 10)
          [] key = "Heat Pump" -> Q(25, 100)
          [] key = "Wood" -> Q(15, 10)
          [] key = "Coal" -> Q(288, 100)
          [] key = "Heavy Meat Eater" -> Q(719, 100)     \* kg CO2 per day
          [] key = "Regular Meat Eater" -> Q(563, 100)
          [] key = "Low Meat Eater" -> Q(467, 100)
          [] key = "Pescatarian" -> Q(391, 100)
          [] key = "Vegetarian" -> Q(381, 100)
          [] key = "Vegan" -> Q(289, 100)
          [] key = "Clothing Spending" -> ClothingSpending
          [] key = "Electronics" -> Z(100)               \* kg CO2 per device
          [] key = "Waste" -> Q(5, 10)                   \* kg CO2 per kg waste
          [] key = "Zero Waste Efforts" -> ZeroWasteEfforts]

\* Whether a table entry is a number (and not one of the two nested tables).
IsNumber(v) == DOMAIN v = {"n", "d"}

\* The outcome of using emission_factors[key] as a factor in a product:
\* "ok", or the exception the expression raises.
FactorLookup(key) ==
    IF key \notin DOMAIN emission_factors THEN "KeyError"
    ELSE IF ~IsNumber(emission_factors[key]) THEN "TypeError"
    ELSE "ok"

\* The outcome of emission_factors[table][key].
TierLookup(table, key) ==
    IF key \in DOMAIN emission_factors[table] THEN "ok" ELSE "KeyError"

(***************************************************************************)
(* The calculation block (if st.button("Calculate Carbon Footprint"))      *)
(* p is the record of the widget values of the script run.                 *)
(***************************************************************************)
\* 1 - pct/k, the shape of every reducing modifier.
OneMinus(pct, k) == QSub(Z(1), Q(pct, k))

\* 1 + pct/k, the shape of every increasing modifier.
OnePlus(pct, k) == QAdd(Z(1), Q(pct, k))

\* commute_emissions with liters_per_day put to use for every car.
commute_by_consumption(p) ==
    IF StartsWithCar(p.transport_mode)
    THEN LET per_day == QDiv(QMul(p.daily_distance, p.fuel_efficiency), Z(100))
         IN  QMul(QMul(per_day, emission_factors[p.transport_mode]), Z(365))
    ELSE QMul(QMul(p.daily_distance, emission_factors[p.transport_mode]), Z(365))

\* Daily commute, annualized.
commute_emissions(p) ==
    IF StartsWithCar(p.transport_mode)
    THEN IF p.transport_mode = "Car (Electric)"
         THEN \* Electric cars use kWh/100km
              LET kwh_per_day == QDiv(QMul(p.daily_distance, p.fuel_efficiency), Z(100))
              IN  QMul(QMul(kwh_per_day, emission_factors[p.transport_mode]), Z(365))
         ELSE \* liters_per_day is computed and never used
              QMul(QMul(p.daily_distance, emission_factors[p.transport_mode]), Z(365))
    ELSE QMul(QMul(p.daily_distance, emission_factors[p.transport_mode]), Z(365))

\* Air travel.
flight_emissions(p) ==
    QAdd(QAdd(QMul(Z(p.flight_short), emission_factors["Short Flight"]),
              QMul(Z(p.flight_medium), emission_factors["Medium Flight"])),
         QMul(Z(p.flight_long), emission_factors["Long Flight"]))

transport_emissions(p) == QAdd(QAdd(Z(0), commute_emissions(p)), flight_emissions(p))

heating_factor(p) ==
    IF p.heating_type = "Electric" THEN emission_factors["Electric Heating"]
    ELSE emission_factors[p.heating_type]

energy_emissions(p) ==
    LET renewable == OneMinus(p.renewable_percentage, 100)
        electricity ==
            QMul(QMul(QMul(Z(p.electricity_kwh), emission_factors["Electricity"]),
                      renewable), Z(12))
        heating == QMul(QMul(Z(p.heating_usage), heating_factor(p)), Z(12))
        ac == IF p.has_ac
              THEN QMul(QMul(QMul(Z(p.ac_hours), Z(365)), emission_factors["Electricity"]),
                        renewable)
              ELSE Z(0)
    IN  QAdd(QAdd(QAdd(Z(0), electricity), heating), ac)

\* local_modifier with the percentage divided by 50.
local_modifier_steep(p) == OneMinus(p.local_food, 50)

local_modifier(p) == OneMinus(p.local_food, 200)

organic_modifier(p) == OneMinus(p.organic_food, 250)

waste_modifier(p) == OnePlus(p.food_waste, 100)

processed_modifier(p) == OnePlus(p.processed_food, 200)

diet_emissions(p) ==
    QMul(QMul(emission_factors[p.diet_type], Z(365)),
         QMul(QMul(QMul(local_modifier(p), organic_modifier(p)), waste_modifier(p)),
              processed_modifier(p)))

\* 1 - len(recycled_items) * 0.05
recycling_modifier(p) == QSub(Z(1), QMul(Z(Cardinality(p.recycled_items)), Q(5, 100)))

secondhand_modifier(p) == OneMinus(p.second_hand, 200)

consumption_emissions(p) ==
    LET clothing_factor == emission_factors["Clothing Spending"][p.clothing_spending]
        base == QAdd(QAdd(Z(0), QMul(clothing_factor, Z(500))),
                     QMul(Z(p.electronics_yearly), emission_factors["Electronics"]))
    IN  QMul(base, QMul(recycling_modifier(p), secondhand_modifier(p)))

waste_emissions(p) ==
    LET base == QMul(QMul(p.waste_weekly, emission_factors["Waste"]), Z(52))
        composted == IF p.composting THEN QMul(base, Q(8, 10)) ELSE base
        recycled == QMul(composted, OneMinus(p.recycling_rate, 200))
    IN  QMul(recycled, emission_factors["Zero Waste Efforts"][p.zero_waste])

\* The first exception the block raises on p, in statement order, or "none".
\* Every lookup precedes the first write to st.session_state.
calculation_error(p) ==
    IF FactorLookup(p.transport_mode) # "ok" THEN FactorLookup(p.transport_mode)
    ELSE IF p.heating_type # "Electric" /\ FactorLookup(p.heating_type) # "ok"
         THEN FactorLookup(p.heating_type)
    ELSE IF FactorLookup(p.diet_type) # "ok" THEN FactorLookup(p.diet_type)
    ELSE IF TierLookup("Clothing Spending", p.clothing_spending) # "ok"
         THEN TierLookup("Clothing Spending", p.clothing_spending)
    ELSE IF TierLookup("Zero Waste Efforts", p.zero_waste) # "ok"
         THEN TierLookup("Zero Waste Efforts", p.zero_waste)
    ELSE "none"

\* sum_emissions with the last term left out.
sum_without_waste(t, e, d, c, w) == QAdd(QAdd(QAdd(t, e), d), c)

\* total_emissions = transport + energy + diet + consumption + waste
sum_emissions(t, e, d, c, w) == QAdd(QAdd(QAdd(QAdd(t, e), d), c), w)

\* calculation with the total added onto the session total.
calculation_accumulating(p) ==
    LET t == transport_emissions(p)
        e == energy_emissions(p)
        d == diet_emissions(p)
        c == consumption_emissions(p)
        w == waste_emissions(p)
    IN  [transport |-> t, home_energy |-> e, diet |-> d, consumption |-> c,
         waste |-> w, total |-> QAdd(total_emissions, sum_emissions(t, e, d, c, w))]

\* The five category values and their total, for a p the block does not fail on.
calculation(p) ==
    LET t == transport_emissions(p)
        e == energy_emissions(p)
        d == diet_emissions(p)
        c == consumption_emissions(p)
        w == waste_emissions(p)
    IN  [transport |-> t, home_energy |-> e, diet |-> d, consumption |-> c,
         waste |-> w, total |-> sum_emissions(t, e, d, c, w)]

(***************************************************************************)
(* The results section (if st.session_state.total_emissions > 0)           *)
(***************************************************************************)
Last(s) == s[Len(s)]

world_average == 4700

\* ((value - reference) / reference) * 100 on floats: a zero reference does not
\* raise; the quotient of a positive numerator by zero is inf.  The reference
\* of the second call site is a numpy.float64 read out of the DataFrame.
percentage_diff(value, reference) ==
    IF reference.n = 0
    THEN [kind |-> IF QSign(value) > 0 THEN "inf" ELSE IF QSign(value) < 0 THEN "-inf" ELSE "nan",
          value |-> Z(0)]
    ELSE [kind |-> "number",
          value |-> QMul(QDiv(QSub(value, reference), reference), Z(100))]

categories == <<"transport", "home_energy", "diet", "consumption", "waste">>

\* emissions = [emissions_data[cat][-1] for cat in categories]
latest_emissions(data) == [i \in 1..Len(categories) |-> Last(data[categories[i]])]

\* max(emissions)
MaxOf(seq) ==
    CHOOSE m \in {seq[i] : i \in DOMAIN seq} : \A j \in DOMAIN seq : QLe(seq[j], m)

\* IndexOf taking the last position holding m.
IndexOfLast(seq, m) ==
    CHOOSE i \in DOMAIN seq : seq[i] = m /\ \A j \in (i + 1)..Len(seq) : seq[j] # m

\* emissions.index(m): the first position holding m.
IndexOf(seq, m) ==
    CHOOSE i \in DOMAIN seq : seq[i] = m /\ \A j \in 1..(i - 1) : seq[j] # m

highest_category(data) ==
    categories[IndexOf(latest_emissions(data), MaxOf(latest_emissions(data)))]

recommendations ==
    [transport |-> <<
        "Consider carpooling or using public transportation more frequently",
        "If possible, work from home a few days a week to reduce commute emissions",
        "For short distances, consider walking or cycling instead of driving",
        "If you're in the market for a new vehicle, consider electric or hybrid options">>,
     home_energy |-> <<
        "Switch to LED light bulbs throughout your home",
        "Improve home insulation to reduce heating/cooling needs",
        "Consider investing in renewable energy sources like solar panels",
        "Unplug electronics when not in use to avoid phantom energy usage">>,
     diet |-> <<
        "Try to incorporate more plant-based meals into your diet",
        "Buy more locally produced and seasonal foods",
        "Plan meals to reduce food waste",
        "Compost food scraps instead of sending them to landfill">>,
     consumption |-> <<
        "Before buying new items, consider if you can repair, borrow, or buy second-hand",
        "Invest in quality items that will last longer, even if they cost more initially",
        "Recycle as much as possible and properly dispose of electronics",
        "Support companies with sustainable practices and certifications">>,
     waste |-> <<
        "Start composting food scraps and yard waste",
        "Switch to reusable alternatives for common disposable items",
        "Buy products with minimal or recyclable packaging",
        "Participate in local recycling programs and ensure you're recycling correctly">>]

(***************************************************************************)
(* The reference dataset                                                   *)
(***************************************************************************)
\* pd.to_datetime(df['Date'], format='%d-%m-%Y') accepts a date <<dd, mm, yyyy>>.
ParsesAsDate(date) ==
    /\ date[2] \in 1..12
    /\ date[1] \in 1..(CASE date[2] \in {4, 6, 9, 11} -> 30
                         [] date[2] = 2 -> IF date[3] % 4 = 0 /\ (date[3] % 100 # 0 \/ date[3] % 400 = 0)
                                           THEN 29 ELSE 28
                         [] OTHER -> 31)

\* load_emissions_data(): the rows with Year derived from Date, or, on any
\* exception, an error message and the empty DataFrame.
load_emissions_data(file) ==
    IF file.exists /\ \A i \in DOMAIN file.rows : ParsesAsDate(file.rows[i].Date)
    THEN [error |-> FALSE,
          rows |-> [i \in DOMAIN file.rows |->
                      [Country |-> file.rows[i].Country, Year |-> file.rows[i].Date[3],
                       Region |-> file.rows[i].Region,
                       PerCapita |-> file.rows[i].PerCapita,
                       Kilotons |-> file.rows[i].Kilotons]]]
    ELSE [error |-> TRUE, rows |-> <<>>]

Min(S) == CHOOSE x \in S : \A y \in S : x <= y

\* emissions_df['Country'].unique() (sorted() only orders the select box).
countries(rows) == {rows[i].Country : i \in DOMAIN rows}

\* latest_positions with the sort by year left out: iloc[0] is the first row of c.
first_positions(rows, c) ==
    {i \in DOMAIN rows :
        /\ rows[i].Country = c
        /\ \A j \in DOMAIN rows : rows[j].Country = c => i <= j}

\* The positions iloc[0] can denote after
\* emissions_df[Country == c].sort_values('Year', ascending=False):
\* a row of c with the greatest year (the sort is not stable).
latest_positions(rows, c) ==
    {i \in DOMAIN rows :
        /\ rows[i].Country = c
        /\ \A j \in DOMAIN rows : rows[j].Country = c => rows[j].Year <= rows[i].Year}

\* emissions_df[emissions_df['Year'] == year]: the matching rows in file order,
\* each under its index label in emissions_df (0, 1, 2, ...).
rows_of_year(rows, year) ==
    LET keep == {i \in DOMAIN rows : rows[i].Year = year}
        pos(k) == CHOOSE i \in keep : Cardinality({j \in keep : j < i}) = k - 1
    IN  [k \in 1..Cardinality(keep) |-> [index |-> pos(k) - 1, row |-> rows[pos(k)]]]

\* The orders sort_values('Metric Tons Per Capita', ascending=False) can leave
\* a frame in: every descending arrangement (ties in any order), labels kept.
sort_values_descending(frame) ==
    LET n == Len(frame)
    IN  {[k \in 1..n |-> frame[o[k]]] :
            o \in {o \in [1..n -> 1..n] :
                     /\ \A a, b \in 1..n : a # b => o[a] # o[b]
                     /\ \A a \in 1..n : a < n =>
                            QLe(frame[o[a + 1]].row.PerCapita, frame[o[a]].row.PerCapita)}}

\* reset_index left out: the labels of emissions_df stay.
keep_index(frame) == frame

\* reset_index(drop=True): the labels become 0, 1, 2, ... in the current order.
reset_index(frame) == [k \in DOMAIN frame |-> [index |-> k - 1, row |-> frame[k].row]]

\* global_data.index = global_data.index + 1
index_plus_one(frame) ==
    [k \in DOMAIN frame |-> [index |-> frame[k].index + 1, row |-> frame[k].row]]

\* The frames global_data can be for a year.
global_rankings(rows, year) ==
    {index_plus_one(reset_index(f)) : f \in sort_values_descending(rows_of_year(rows, year))}

\* global_data[global_data['Country'] == c].index: the labels of c's rows, in
\* frame order; [0] takes the first (IndexError when there is none).
country_labels(global_data, c) ==
    LET hits == {k \in DOMAIN global_data : global_data[k].row.Country = c}
    IN  IF hits = {} THEN <<>> ELSE <<global_data[Min(hits)].index>>

(***************************************************************************)
(* The page one script run renders                                         *)
(***************************************************************************)
NoDiff == [kind |-> "none", value |-> Z(0)]

\* A page with none of the conditional sections.
BlankPage ==
    [exception |-> "none", success |-> FALSE, results |-> FALSE, world_diff |-> NoDiff, focus |-> "",
     advice |-> <<>>, load_error |-> FALSE, comparison |-> FALSE,
     selected_country |-> "", latest_year |-> 0, reference |-> Z(0),
     country_diff |-> NoDiff, region |-> "", global_data |-> <<>>, country_rank |-> 0,
     total_countries |-> 0, trends |-> FALSE]

\* The page of a run whose calculation block raised: the script stops there.
ExceptionPage(err) == [BlankPage EXCEPT !.exception = err]

\* "Your Carbon Footprint Results" down to the recommendations.
ResultsSection(page, tot, data) ==
    [page EXCEPT !.results = TRUE,
                 !.world_diff = percentage_diff(tot, Z(world_average)),
                 !.focus = highest_category(data),
                 !.advice = recommendations[highest_category(data)]]

\* "Global Emissions Comparison" for the selected country c, with i the position
\* iloc[0] denotes and g the order the ranking sort produced.  An empty label
\* list at line 527 raises IndexError, which ends the run there.
ComparisonSection(page, tot, rows, c, i, g) ==
    LET latest_year == rows[i].Year
        latest_emissions_per_capita == QMul(rows[i].PerCapita, Z(1000))
        compared ==
            [page EXCEPT !.comparison = TRUE,
                         !.selected_country = c,
                         !.latest_year = latest_year,
                         !.reference = latest_emissions_per_capita,
                         !.country_diff = percentage_diff(tot, latest_emissions_per_capita),
                         !.region = rows[i].Region,
                         !.global_data = g]
    IN  IF country_labels(g, c) = <<>>
        THEN [compared EXCEPT !.exception = "IndexError"]
        ELSE [compared EXCEPT !.country_rank = country_labels(g, c)[1],
                              !.total_countries = Len(g),
                              !.trends = TRUE]

\* What the user and the sort can choose in a run over the loaded rows.
Selections(rows) ==
    UNION {UNION {{<<c, i, g>> : g \in global_rankings(rows, rows[i].Year)} :
                    i \in latest_positions(rows, c)} :
             c \in countries(rows)}

\* The pages a run can render from the session values tot and data and the
\* loaded dataset df, below the calculation block (lines 291-584); the trends
\* section follows the comparison whenever the DataFrame is not empty.
Pages(tot, data, df) ==
    IF QSign(tot) > 0
    THEN LET shown == [ResultsSection(BlankPage, tot, data) EXCEPT !.load_error = df.error]
         IN  IF df.rows # <<>>
             THEN {ComparisonSection(shown, tot, df.rows, sel[1], sel[2], sel[3]) :
                     sel \in Selections(df.rows)}
             ELSE {shown}
    ELSE {BlankPage}

\* The DataFrame a run that reaches line 449 works on, and the cache after it.
Loaded(c, file) == IF c.loaded THEN c.df ELSE load_emissions_data(file)

NotLoaded == [loaded |-> FALSE, df |-> [error |-> FALSE, rows |-> <<>>]]

CacheAfter(tot, c, file) ==
    IF QSign(tot) > 0 THEN [loaded |-> TRUE, df |-> Loaded(c, file)] ELSE c

(***************************************************************************)
(* Bounds                                                                  *)
(***************************************************************************)
MaxCalcs == 2

MaxDay == 2

MaxRows == 3

(***************************************************************************)
(* Widget values the runs are driven with                                  *)
(***************************************************************************)
\* Every number input at its minimum, every slider at 0, nothing ticked.
Lowest ==
    [transport_mode |-> "Walking", daily_distance |-> Z(0), fuel_efficiency |-> Unbound,
     flight_short |-> 0, flight_medium |-> 0, flight_long |-> 0,
     electricity_kwh |-> 0, renewable_percentage |-> 0,
     heating_type |-> "Natural Gas", heating_usage |-> 0, has_ac |-> FALSE, ac_hours |-> 0,
     diet_type |-> "Vegan", local_food |-> 0, organic_food |-> 0, food_waste |-> 0,
     processed_food |-> 0,
     clothing_spending |-> "Very Low", electronics_yearly |-> 0, recycled_items |-> {},
     second_hand |-> 0,
     waste_weekly |-> Z(0), composting |-> FALSE, recycling_rate |-> 0, zero_waste |-> "None"]

\* A commuter by petrol car with a heated, air-conditioned home.
Commuter ==
    [Lowest EXCEPT !.transport_mode = "Car (Gasoline)", !.daily_distance = Z(10),
                   !.fuel_efficiency = Z(8), !.electricity_kwh = 300,
                   !.renewable_percentage = 50, !.heating_usage = 100,
                   !.has_ac = TRUE, !.ac_hours = 2,
                   !.diet_type = "Regular Meat Eater", !.local_food = 50,
                   !.food_waste = 50, !.clothing_spending = "Average",
                   !.electronics_yearly = 1, !.second_hand = 50,
                   !.waste_weekly = Z(10), !.recycling_rate = 50]

\* Every reducing slider at 100, all five materials recycled, composting.
Greenest ==
    [Commuter EXCEPT !.renewable_percentage = 100, !.local_food = 100,
                     !.organic_food = 100, !.food_waste = 0, !.processed_food = 0,
                     !.recycled_items = RecyclableItems, !.second_hand = 100,
                     !.composting = TRUE, !.recycling_rate = 100,
                     !.zero_waste = "Zero-waste lifestyle"]

\* transport = home_energy = 3000, the maximum of the five.
TieTransportEnergy == [Lowest EXCEPT !.flight_long = 1, !.electricity_kwh = 500]

\* home_energy = consumption = 3000, the maximum of the five.
TieEnergyConsumption ==
    [Lowest EXCEPT !.electricity_kwh = 500, !.clothing_spending = "Very High",
                   !.electronics_yearly = 20]

HeavyWaste == [Lowest EXCEPT !.waste_weekly = Z(200), !.composting = TRUE]

\* The widget values of the session specification.
SessionProfiles ==
    {Lowest, Commuter, Greenest, TieTransportEnergy, TieEnergyConsumption, HeavyWaste}

\* Whether p is what the widgets can hold.
ValidProfile(p) ==
    /\ p.transport_mode \in TransportModes
    /\ QSign(p.daily_distance) >= 0
    /\ StartsWithCar(p.transport_mode) => QLe(Q(1, 10), p.fuel_efficiency)
    /\ p.flight_short >= 0 /\ p.flight_medium >= 0 /\ p.flight_long >= 0
    /\ p.electricity_kwh >= 0 /\ p.renewable_percentage \in 0..100
    /\ p.heating_type \in HeatingTypes /\ p.heating_usage >= 0
    /\ p.has_ac => p.ac_hours >= 0
    /\ p.diet_type \in DietTypes
    /\ p.local_food \in 0..100 /\ p.organic_food \in 0..100
    /\ p.food_waste \in 0..100 /\ p.processed_food \in 0..100
    /\ p.clothing_spending \in ClothingTiers /\ p.electronics_yearly >= 0
    /\ p.recycled_items \subseteq RecyclableItems /\ p.second_hand \in 0..100
    /\ QSign(p.waste_weekly) >= 0 /\ p.recycling_rate \in 0..100
    /\ p.zero_waste \in ZeroWasteTiers

(***************************************************************************)
(* Reference dataset files                                                 *)
(***************************************************************************)
FileRow(country, date, region, percapita, kilotons) ==
    [Country |-> country, Date |-> date, Region |-> region, PerCapita |-> percapita,
     Kilotons |-> kilotons]

MissingFile == [exists |-> FALSE, rows |-> <<>>]

SampleFile ==
    [exists |-> TRUE,
     rows |-> <<FileRow("Brazil", <<1, 1, 2018>>, "Americas", Z(2), 400),
                FileRow("India", <<1, 1, 2019>>, "Asia", Q(18, 10), 2400),
                FileRow("Brazil", <<1, 1, 2019>>, "Americas", Q(22, 10), 430)>>]

\* A Date column that does not parse as day-month-year.
MalformedFile ==
    [exists |-> TRUE, rows |-> <<FileRow("India", <<31, 2, 2019>>, "Asia", Z(2), 2400)>>]

SessionFiles == {MissingFile, MalformedFile, SampleFile}

(***************************************************************************)
(* Script runs                                                             *)
(***************************************************************************)
Init ==
    /\ total_emissions = Z(0)
    /\ emissions_data = [date |-> <<>>, transport |-> <<>>, home_energy |-> <<>>,
                         diet |-> <<>>, consumption |-> <<>>, waste |-> <<>>,
                         total |-> <<>>]
    /\ inputs = <<>>
    /\ today = 1
    /\ csv_file \in SessionFiles
    /\ cache = NotLoaded
    /\ view = BlankPage

\* AppendRecord run ahead of line 280: the total list takes the session total
\* of before the calculation.
AppendStaleTotal(data, date, r) ==
    [date |-> Append(data.date, date),
     transport |-> Append(data.transport, r.transport),
     home_energy |-> Append(data.home_energy, r.home_energy),
     diet |-> Append(data.diet, r.diet),
     consumption |-> Append(data.consumption, r.consumption),
     waste |-> Append(data.waste, r.waste),
     total |-> Append(data.total, total_emissions)]

\* AppendRecord with the lists started afresh.
RestartRecord(data, date, r) ==
    [date |-> <<date>>, transport |-> <<r.transport>>, home_energy |-> <<r.home_energy>>,
     diet |-> <<r.diet>>, consumption |-> <<r.consumption>>, waste |-> <<r.waste>>,
     total |-> <<r.total>>]

\* Lines 280-287: the session total, then one append to each of the seven lists.
AppendRecord(data, date, r) ==
    [date |-> Append(data.date, date),
     transport |-> Append(data.transport, r.transport),
     home_energy |-> Append(data.home_energy, r.home_energy),
     diet |-> Append(data.diet, r.diet),
     consumption |-> Append(data.consumption, r.consumption),
     waste |-> Append(data.waste, r.waste),
     total |-> Append(data.total, r.total)]

\* A run with "Calculate Carbon Footprint" pressed and widget values p, on which
\* the calculation block completes.
\* Calculate with the dataset loaded ahead of the calculation block and the
\* loader's exception not caught: a failed load ends the run before line 202.
CalculateAfterLoad(p) ==
    /\ Len(inputs) < MaxCalcs
    /\ calculation_error(p) = "none"
    /\ IF Loaded(cache, csv_file).error
       THEN /\ view' = ExceptionPage("FileNotFoundError")
            /\ UNCHANGED <<total_emissions, emissions_data, inputs, cache>>
       ELSE LET r == calculation(p)
            IN  /\ total_emissions' = r.total
                /\ emissions_data' = AppendRecord(emissions_data, today, r)
                /\ inputs' = Append(inputs, p)
                /\ cache' = CacheAfter(r.total, cache, csv_file)
                /\ view' \in {[pg EXCEPT !.success = TRUE] :
                                pg \in Pages(r.total, emissions_data', Loaded(cache, csv_file))}
    /\ UNCHANGED <<today, csv_file>>

\* A run with the "Calculate My Carbon Footprint" button pressed and the
\* calculation block running to its end.
Calculate(p) ==
    /\ Len(inputs) < MaxCalcs
    /\ calculation_error(p) = "none"
    /\ LET r == calculation(p)
       IN  /\ total_emissions' = r.total
           /\ emissions_data' = AppendRecord(emissions_data, today, r)
           /\ inputs' = Append(inputs, p)
           /\ cache' = CacheAfter(r.total, cache, csv_file)
           /\ view' \in {[pg EXCEPT !.success = TRUE] :
                           pg \in Pages(r.total, emissions_data', Loaded(cache, csv_file))}
    /\ UNCHANGED <<today, csv_file>>

\* CalculateRaises with the date appended before the lookups.
CalculateRaisesLate(p) ==
    /\ calculation_error(p) # "none"
    /\ Len(inputs) < MaxCalcs
    /\ emissions_data' = [emissions_data EXCEPT !.date = Append(@, today)]
    /\ view' = ExceptionPage(calculation_error(p))
    /\ UNCHANGED <<total_emissions, inputs, today, csv_file, cache>>

\* A run with the button pressed on which the calculation block raises: the
\* script run ends at the exception.
CalculateRaises(p) ==
    /\ calculation_error(p) # "none"
    /\ view' = ExceptionPage(calculation_error(p))
    /\ UNCHANGED <<total_emissions, emissions_data, inputs, today, csv_file, cache>>

\* A run without the button pressed (another widget changed, or the download
\* button): the page is rendered from the session state.
Rerun ==
    /\ cache' = CacheAfter(total_emissions, cache, csv_file)
    /\ view' \in Pages(total_emissions, emissions_data, Loaded(cache, csv_file))
    /\ UNCHANGED <<total_emissions, emissions_data, inputs, today, csv_file>>

\* Midnight passes between two runs.
NextDay ==
    /\ today < MaxDay
    /\ today' = today + 1
    /\ UNCHANGED <<total_emissions, emissions_data, inputs, csv_file, cache, view>>

Next ==
    \/ \E p \in SessionProfiles : Calculate(p)
    \/ Rerun
    \/ NextDay

Spec == Init /\ [][Next]_vars

(***************************************************************************)
(* One calculation per session, over the widget values of each tab         *)
(***************************************************************************)
Percentages == {0, 50, 100}

TransportTab(base) ==
    {[base EXCEPT !.transport_mode = tm, !.daily_distance = dist,
                  !.fuel_efficiency = IF StartsWithCar(tm) THEN eff ELSE Unbound,
                  !.flight_short = fs, !.flight_medium = fm, !.flight_long = fl] :
        tm \in TransportModes, dist \in {Z(0), Z(5), Z(10)},
        eff \in {Q(1, 10), Z(8), Z(15)}, fs \in {0, 1}, fm \in {0, 2}, fl \in {0, 1}}

HomeEnergyTab(base) ==
    {[base EXCEPT !.electricity_kwh = kwh, !.renewable_percentage = rp,
                  !.heating_type = ht, !.heating_usage = hu,
                  !.has_ac = (ac > 0), !.ac_hours = ac] :
        kwh \in {0, 300}, rp \in Percentages, ht \in HeatingTypes, hu \in {0, 100},
        ac \in {0, 2}}

DietTab(base) ==
    {[base EXCEPT !.diet_type = dt, !.local_food = lf, !.organic_food = of,
                  !.food_waste = fw, !.processed_food = pf] :
        dt \in DietTypes, lf \in Percentages, of \in Percentages, fw \in Percentages,
        pf \in Percentages}

ConsumerTab(base) ==
    {[base EXCEPT !.clothing_spending = cs, !.electronics_yearly = ey,
                  !.recycled_items = ri, !.second_hand = sh] :
        cs \in ClothingTiers, ey \in {0, 1, 20},
        ri \in {{}, {"Paper"}, {"Paper", "Glass", "Metal"}, RecyclableItems},
        sh \in Percentages}

WasteTab(base) ==
    {[base EXCEPT !.waste_weekly = ww, !.composting = co, !.recycling_rate = rr,
                  !.zero_waste = zw] :
        ww \in {Z(0), Q(5, 2), Z(10)}, co \in BOOLEAN, rr \in Percentages,
        zw \in ZeroWasteTiers}

\* The widget values reached from a starting page by editing one tab.
TabProfiles ==
    UNION {TransportTab(b) \cup HomeEnergyTab(b) \cup DietTab(b) \cup ConsumerTab(b)
               \cup WasteTab(b) : b \in {Lowest, Commuter}}

NextProfiles ==
    \/ \E p \in TabProfiles : inputs = <<>> /\ Calculate(p)
    \/ Rerun

SpecProfiles == Init /\ [][NextProfiles]_vars

(***************************************************************************)
(* The calculation block on values the select boxes do not offer           *)
(***************************************************************************)
\* Enum values off their option list: keys of emission_factors filed under
\* another category, a key whose value is a nested dictionary, a tier of the
\* other tier table, and strings that are no key at all.
OffListProfiles ==
    {[Commuter EXCEPT !.heating_type = "Electricity"],
     [Commuter EXCEPT !.heating_type = "Electric Heating"],
     [Commuter EXCEPT !.transport_mode = "Vegan", !.fuel_efficiency = Unbound],
     [Commuter EXCEPT !.diet_type = "Coal"],
     [Commuter EXCEPT !.transport_mode = "Clothing Spending", !.fuel_efficiency = Unbound],
     [Commuter EXCEPT !.transport_mode = "Car (Hydrogen)"],
     [Commuter EXCEPT !.diet_type = "Omnivore"],
     [Commuter EXCEPT !.clothing_spending = "None"],
     [Commuter EXCEPT !.zero_waste = "Average"]}

EngineProfiles == {Lowest, Commuter} \cup OffListProfiles

NextEngine ==
    \/ \E p \in EngineProfiles : Calculate(p)
    \/ \E p \in EngineProfiles : CalculateRaises(p)
    \/ Rerun
    \/ NextDay

SpecEngine == Init /\ [][NextEngine]_vars

(***************************************************************************)
(* One calculation over every small reference dataset                      *)
(***************************************************************************)
DataRows ==
    {FileRow(c, <<1, 1, y>>, IF c = "India" THEN "Asia" ELSE "Americas", pc, 100) :
        c \in {"Brazil", "India"}, y \in {2018, 2019}, pc \in {Z(0), Q(19, 10)}}

DataFiles ==
    {MissingFile, MalformedFile} \cup
    {[exists |-> TRUE, rows |-> rows] :
        rows \in UNION {[1..n -> DataRows] : n \in 0..MaxRows}}

InitData ==
    /\ total_emissions = Z(0)
    /\ emissions_data = [date |-> <<>>, transport |-> <<>>, home_energy |-> <<>>,
                         diet |-> <<>>, consumption |-> <<>>, waste |-> <<>>,
                         total |-> <<>>]
    /\ inputs = <<>>
    /\ today = 1
    /\ csv_file \in DataFiles
    /\ cache = NotLoaded
    /\ view = BlankPage

NextData ==
    \/ inputs = <<>> /\ Calculate(Commuter)
    \/ Rerun

SpecData == InitData /\ [][NextData]_vars

(***************************************************************************)
(* Claims                                                                  *)
(***************************************************************************)
Columns == {"date", "transport", "home_energy", "diet", "consumption", "waste", "total"}

ValueColumns == Columns \ {"date"}

\* C1: every step keeps each record of the history at its position with its
\* seven values, never shortens the history, and a step that is a completed
\* calculation lengthens every one of the seven lists by exactly one.
C1_HistoryAppendOnly ==
    [][/\ \A col \in Columns :
            /\ Len(emissions_data[col]) <= Len(emissions_data'[col])
            /\ SubSeq(emissions_data'[col], 1, Len(emissions_data[col])) = emissions_data[col]
       /\ \A col \in Columns :
            Len(emissions_data'[col]) =
                Len(emissions_data[col]) + (IF inputs' # inputs THEN 1 ELSE 0)]_vars

C1_Witness ==
    /\ Len(emissions_data.total) >= 2
    /\ emissions_data.total[1] # emissions_data.total[2]

\* C2: in every reachable state every record made from valid widget values has
\* total = transport + home_energy + diet + consumption + waste.
C2_TotalIsSum ==
    \A i \in DOMAIN emissions_data.total :
        ValidProfile(inputs[i]) =>
            emissions_data.total[i] =
                QAdd(QAdd(QAdd(QAdd(emissions_data.transport[i], emissions_data.home_energy[i]),
                               emissions_data.diet[i]),
                          emissions_data.consumption[i]),
                     emissions_data.waste[i])

C2_Witness ==
    \E i \in DOMAIN emissions_data.total :
        /\ ValidProfile(inputs[i])
        /\ \A col \in ValueColumns : QSign(emissions_data[col][i]) > 0

\* C3: the seven lists always have equal length; a run whose calculation raises
\* leaves the history and the session total as they were; a run whose
\* calculation completes adds one entry to each of the seven lists.
C3_CalculationAtomic ==
    [][/\ \A col \in Columns : Len(emissions_data'[col]) = Len(emissions_data'.date)
       /\ view'.exception # "none" =>
            emissions_data' = emissions_data /\ total_emissions' = total_emissions
       /\ inputs' # inputs =>
            \A col \in Columns : Len(emissions_data'[col]) = Len(emissions_data[col]) + 1]_vars

C3_Witness ==
    /\ view.exception \in {"KeyError", "TypeError"}
    /\ Len(emissions_data.date) >= 1
    /\ QSign(total_emissions) > 0

\* C4: every record made from valid widget values has each of its five category
\* values >= 0.
C4_CategoriesNonNegative ==
    \A i \in DOMAIN inputs :
        ValidProfile(inputs[i]) =>
            \A col \in ValueColumns \ {"total"} : QSign(emissions_data[col][i]) >= 0

C4_Witness ==
    \E i \in DOMAIN inputs :
        /\ ValidProfile(inputs[i])
        /\ inputs[i].local_food = 100 /\ inputs[i].organic_food = 100
        /\ inputs[i].food_waste = 100 /\ inputs[i].processed_food = 100
        /\ QSign(emissions_data.diet[i]) > 0

\* Whether every enum field of p is one of the options of its widget.
EnumsOnList(p) ==
    /\ p.transport_mode \in TransportModes
    /\ p.heating_type \in HeatingTypes
    /\ p.diet_type \in DietTypes
    /\ p.clothing_spending \in ClothingTiers
    /\ p.zero_waste \in ZeroWasteTiers

C6_ZeroReferenceFails ==
    /\ view.results /\ world_average = 0 => view.world_diff.kind = "DivisionUndefined"
    /\ view.comparison /\ view.reference.n = 0 =>
            view.country_diff.kind = "DivisionUndefined"

\* C7: the focus category of a rendered results section holds the maximum of the
\* five values of the most recent record, no category before it in the order
\* transport, home_energy, diet, consumption, waste holds that maximum, and the
\* advice shown is that category's list of exactly 4 entries.
C7_FocusIsFirstMaximum ==
    view.results =>
        \E k \in DOMAIN categories :
            /\ view.focus = categories[k]
            /\ \A j \in DOMAIN categories :
                    QLe(Last(emissions_data[categories[j]]), Last(emissions_data[categories[k]]))
            /\ \A j \in 1..(k - 1) :
                    Last(emissions_data[categories[j]]) # Last(emissions_data[categories[k]])
            /\ view.advice = recommendations[categories[k]]
            /\ Len(view.advice) = 4

C7_Witness ==
    /\ view.results
    /\ view.focus = "home_energy"
    /\ Last(emissions_data.home_energy) = Last(emissions_data.consumption)

\* C8: the global ranking built for a year holds exactly the N >= 1 records of
\* that year, in descending per-capita order, under the ranks 1, 2, ..., N.
C8_RankingOfYear ==
    view.comparison =>
        LET g == view.global_data
            rows == cache.df.rows
            of_year == {i \in DOMAIN rows : rows[i].Year = view.latest_year}
            N == Cardinality(of_year)
        IN  /\ N >= 1
            /\ Len(g) = N
            /\ \E o \in [1..N -> of_year] :
                    /\ \A a, b \in 1..N : a # b => o[a] # o[b]
                    /\ \A k \in 1..N : g[k].row = rows[o[k]]
            /\ \A k \in 1..(N - 1) : QLe(g[k + 1].row.PerCapita, g[k].row.PerCapita)
            /\ \A k \in 1..N : g[k].index = k
            /\ \A i \in of_year : QLe(rows[i].PerCapita, g[1].row.PerCapita)

C8_Witness ==
    /\ view.comparison
    /\ Len(view.global_data) >= 2
    /\ QLt(view.global_data[2].row.PerCapita, view.global_data[1].row.PerCapita)
    /\ Len(cache.df.rows) > Len(view.global_data)
    /\ cache.df.rows[1].Year # view.latest_year

\* C9: for Car (Gasoline), Car (Diesel) and Car (Hybrid) the recorded transport
\* value is daily_distance x factor x 365 plus the flights, whatever the fuel
\* efficiency; for Car (Electric) it is (daily_distance x fuel_efficiency / 100)
\* x factor x 365 plus the flights.
C9_CarCommute ==
    \A i \in DOMAIN inputs :
        LET p == inputs[i]
            flights == QAdd(QAdd(QMul(Z(p.flight_short), Z(500)),
                                 QMul(Z(p.flight_medium), Z(1500))),
                            QMul(Z(p.flight_long), Z(3000)))
        IN  /\ p.transport_mode \in {"Car (Gasoline)", "Car (Diesel)", "Car (Hybrid)"} =>
                emissions_data.transport[i] =
                    QAdd(QMul(QMul(p.daily_distance, emission_factors[p.transport_mode]),
                              Z(365)), flights)
            /\ p.transport_mode = "Car (Electric)" =>
                emissions_data.transport[i] =
                    QAdd(QMul(QMul(QDiv(QMul(p.daily_distance, p.fuel_efficiency), Z(100)),
                                   emission_factors[p.transport_mode]), Z(365)), flights)

C9_Witness ==
    \E i \in DOMAIN inputs :
        /\ inputs[i].transport_mode = "Car (Diesel)"
        /\ inputs[i].fuel_efficiency = Z(15)
        /\ inputs[i].daily_distance = Z(10)
        /\ inputs[i].flight_long = 1
        /\ QSign(emissions_data.transport[i]) > 0

\* C10: the history has one record per completed calculation, and two
\* calculations on identical widget values leave records with identical
\* category values and total, whatever was calculated before them.
C10_SameProfileSameValues ==
    /\ \A col \in Columns : Len(emissions_data[col]) = Len(inputs)
    /\ \A i, j \in DOMAIN inputs :
            inputs[i] = inputs[j] =>
                \A col \in ValueColumns : emissions_data[col][i] = emissions_data[col][j]

C10_Witness ==
    /\ Len(inputs) >= 2
    /\ inputs[1] = inputs[2]
    /\ emissions_data.date[1] # emissions_data.date[2]
    /\ QSign(emissions_data.total[2]) > 0

\* C11: when the dataset file is absent or does not parse, no run ends in an
\* exception, and a run with the button pressed appends the record of its
\* profile and stores its total, with the values the profile gives whatever the
\* file is; the results are shown with the loading error, and only the country
\* comparison, the regional comparison, the global ranking and the trends are
\* left out.
C11_LoadFailureLeavesCalculation ==
    [][/\ inputs' # inputs =>
            LET p == Last(inputs')
            IN  /\ inputs' = Append(inputs, p)
                /\ total_emissions' = calculation(p).total
                /\ \A col \in ValueColumns :
                        emissions_data'[col] = Append(emissions_data[col], calculation(p)[col])
                /\ emissions_data'.date = Append(emissions_data.date, today)
       /\ load_emissions_data(csv_file).error =>
            /\ view'.exception = "none"
            /\ inputs' # inputs => view'.success
            /\ inputs' # <<>> => view'.results /\ view'.load_error
            /\ ~view'.comparison /\ view'.selected_country = "" /\ view'.region = ""
            /\ view'.global_data = <<>> /\ view'.country_rank = 0 /\ ~view'.trends]_vars

C11_Witness ==
    /\ load_emissions_data(csv_file).error
    /\ Len(inputs) = 2
    /\ view.success /\ view.results /\ view.load_error
    /\ ~view.comparison /\ ~view.trends
    /\ total_emissions = calculation(inputs[2]).total

\* C12: either nothing has been calculated (the session total is 0 and the
\* history is empty) or the session total is the total of the last record; so
\* whenever the results section is entered (session total > 0) each of the lists
\* read with [-1] is non-empty.
C12_SessionTotalIsLastTotal ==
    /\ \/ emissions_data.total = <<>> /\ total_emissions = Z(0)
       \/ emissions_data.total # <<>> /\ total_emissions = Last(emissions_data.total)
    /\ QSign(total_emissions) > 0 =>
            \A col \in Columns : emissions_data[col] # <<>>
    /\ view.results => QSign(total_emissions) > 0

C12_Witness ==
    /\ view.results
    /\ Len(emissions_data.total) = 2
    /\ emissions_data.total[1] # emissions_data.total[2]
    /\ total_emissions = emissions_data.total[2]

\* C13: whenever the comparison is rendered for a selected country, the year
\* used is the greatest year among that country's rows, the country has a row
\* in the ranking of that year, the rank lookup does not raise, and the rank
\* lies between 1 and the number of rows of that year.
C13_RankLookupDefined ==
    view.comparison =>
        LET rows == cache.df.rows
            c == view.selected_country
            of_year == {i \in DOMAIN rows : rows[i].Year = view.latest_year}
        IN  /\ c \in {rows[i].Country : i \in DOMAIN rows}
            /\ \E i \in DOMAIN rows : rows[i].Country = c /\ rows[i].Year = view.latest_year
            /\ \A i \in DOMAIN rows : rows[i].Country = c => rows[i].Year <= view.latest_year
            /\ \E k \in DOMAIN view.global_data : view.global_data[k].row.Country = c
            /\ view.exception = "none"
            /\ view.country_rank \in 1..Cardinality(of_year)
            /\ view.total_countries = Cardinality(of_year)

C13_Witness ==
    /\ view.comparison
    /\ view.country_rank = 2
    /\ \E i \in DOMAIN cache.df.rows :
            /\ cache.df.rows[i].Country = view.selected_country
            /\ cache.df.rows[i].Year < view.latest_year
            /\ \A j \in DOMAIN cache.df.rows :
                    cache.df.rows[j].Country = view.selected_country => i <= j

====
